---- MODULE Spec2Model ----
(***************************************************************************)
(* Cloud cost optimiser: the scan API with its background task, the        *)
(* persistence tables, the implementation ledger, and the compute/storage  *)
(* classifiers with their cost model.                                      *)
(*                                                                         *)
(* Money is counted in cents (the code rounds every amount to 2 decimals), *)
(* hourly rates in 1/10000 dollar, CPU percentages in 1/100 percent (the   *)
(* code rounds averages to 2 decimals).  An instance type string is held   *)
(* as the list of its dot-separated parts, the result of split(".").       *)
(***************************************************************************)
EXTENDS Integers, Sequences, FiniteSets, TLC

VARIABLES
    demo_mode,          \* os.getenv("DEMO_MODE") == "true" of the process
    scan_runs,          \* table scan_runs: id -> row
    ec2_findings,       \* table ec2_findings: id -> row
    ebs_findings,       \* table ebs_findings: id -> row
    savings_realized,   \* table savings_realized: id -> row
    next_id,            \* the tables' id sequences
    tasks,              \* background tasks: scan_run_id -> task state
    response,           \* the last response sent (API) or outcome (CLI)
    inventory,          \* provider state seen by a live scanner
    ec2_scan,           \* state of one EC2Scanner.scan() call
    ebs_scan,           \* state of one EBSScanner.scan() call
    report              \* the report MasterScanner.scan() assembles live

vars == << demo_mode, scan_runs, ec2_findings, ebs_findings, savings_realized,
           next_id, tasks, response, inventory, ec2_scan, ebs_scan, report >>

api_vars == << demo_mode, scan_runs, ec2_findings, ebs_findings,
               savings_realized, next_id, tasks, response >>

scanner_vars == << inventory, ec2_scan, ebs_scan, report >>

(***************************************************************************)
(* Bounds of the model.                                                    *)
(***************************************************************************)
MaxScans == 2

None == "None"

(***************************************************************************)
(* Generic helpers.                                                        *)
(***************************************************************************)
Range(s) == { s[i] : i \in DOMAIN s }

RECURSIVE SumSeq(_)
SumSeq(s) == IF s = << >> THEN 0 ELSE Head(s) + SumSeq(Tail(s))

\* [f(x) for x in s]
MapSeq(s, f(_)) == [ i \in DOMAIN s |-> f(s[i]) ]

\* sum(1 for x in s if p(x))
CountSeq(s, p(_)) == Cardinality({ i \in DOMAIN s : p(s[i]) })

\* A table without the rows whose ids are in ids.
DeleteRows(table, ids) == [ i \in (DOMAIN table) \ ids |-> table[i] ]

\* round(n / d) to the nearest integer, d > 0: no tie occurs for the
\* amounts modelled.
RoundDiv(n, d) == IF 2 * (n % d) >= d THEN (n \div d) + 1 ELSE n \div d

(***************************************************************************)
(* Names bound in a module's namespace (its imports and definitions): a    *)
(* use of any other name raises NameError.                                 *)
(***************************************************************************)
\* The module's names had it imported datetime as scans.py does.
findings_module_names_with_datetime ==
    { "Any", "Dict", "schemas", "EBSFinding", "EC2Finding", "ScanRun",
      "get_db", "APIRouter", "Depends", "HTTPException", "Session",
      "router", "get_latest_findings", "mark_as_implemented", "datetime" }

findings_module_names ==
    { "Any", "Dict", "schemas", "EBSFinding", "EC2Finding", "ScanRun",
      "get_db", "APIRouter", "Depends", "HTTPException", "Session",
      "router", "get_latest_findings", "mark_as_implemented" }

master_scanner_module_names ==
    { "json", "os", "random", "time", "datetime", "timedelta", "Dict",
      "EBSFinding", "EC2Finding", "ScanRun", "SessionLocal", "text",
      "EBSScanner", "EC2Scanner", "MasterScanner" }

\* Parameters and locals of MasterScanner.__init__.
MasterScanner_init_locals == { "self", "region" }

(***************************************************************************)
(* MasterScanner._generate_demo_data: the fixed synthetic report.          *)
(***************************************************************************)
\* A stale total: the optimisation finding's savings left out of it.
demo_executive_summary_stale ==
    [ total_monthly_savings |-> 21250,
      total_annual_savings |-> 255000,
      total_recommendations |-> 4,
      critical_items |-> 1,
      high_priority_items |-> 2 ]

demo_executive_summary ==
    [ total_monthly_savings |-> 35750,
      total_annual_savings |-> 429000,
      total_recommendations |-> 4,
      critical_items |-> 1,
      high_priority_items |-> 2 ]

_generate_demo_data ==
    [ scan_metadata |-> [ scanners_run |-> << "EC2", "EBS" >>,
                          scan_duration_seconds |-> 3 ],
      ec2_findings |->
        [ instances_scanned |-> 15,
          recommendations |-> <<
            [ instance_id |-> "i-demo-web-prod",
              instance_type |-> << "m5", "large" >>,
              metrics |-> [ avg_cpu |-> 250, max_cpu |-> 1200 ],
              costs |-> [ current_monthly_cost |-> 7600 ],
              recommendation |-> [ action |-> "Rightsize",
                                   primary_savings |-> 4250,
                                   annual_impact |-> 51000,
                                   severity |-> "high" ] ],
            [ instance_id |-> "i-demo-test-worker",
              instance_type |-> << "t3", "xlarge" >>,
              metrics |-> [ avg_cpu |-> 10, max_cpu |-> 50 ],
              costs |-> [ current_monthly_cost |-> 12000 ],
              recommendation |-> [ action |-> "Terminate",
                                   primary_savings |-> 12000,
                                   annual_impact |-> 144000,
                                   severity |-> "critical" ] ] >>,
          summary |-> [ critical |-> 1, high |-> 1 ] ],
      ebs_findings |->
        [ findings |->
            [ unattached_volumes |-> [ items |-> <<
                [ volume_id |-> "vol-demo-unused",
                  type |-> "gp2",
                  size_gb |-> 500,
                  age_days |-> 45,
                  monthly_cost |-> 5000,
                  annual_cost |-> 60000,
                  severity |-> "medium" ] >> ],
              volume_optimizations |-> [ items |-> <<
                [ volume_id |-> "vol-demo-io1",
                  current_type |-> "io1",
                  recommended_type |-> "gp3",
                  size_gb |-> 1000,
                  current_monthly_cost |-> 22500,
                  monthly_savings |-> 14500,
                  severity |-> "high" ] >> ] ],
          summary |-> [ total_findings |-> 2,
                        critical_severity |-> 0,
                        high_severity |-> 1 ] ],
      executive_summary |-> demo_executive_summary ]

(***************************************************************************)
(* Rows written for a report's findings, as run_scan_task and              *)
(* MasterScanner._save_to_database build them.  dict.get with a default:   *)
(***************************************************************************)
Get(d, key, default) == IF key \in DOMAIN d THEN d[key] ELSE default

\* A row filed under the first scan whatever scan produced it.
EC2FindingRow_of_first_scan(scan_run_id, rec) ==
    [ scan_run_id |-> 1,
      instance_id |-> rec.instance_id,
      instance_type |-> rec.instance_type,
      avg_cpu_utilization |-> rec.metrics.avg_cpu,
      current_monthly_cost |-> rec.costs.current_monthly_cost,
      potential_monthly_savings |-> rec.recommendation.primary_savings,
      potential_annual_savings |-> rec.recommendation.annual_impact,
      recommendation_type |-> rec.recommendation.action,
      severity |-> rec.recommendation.severity,
      is_implemented |-> FALSE,
      implementation_date |-> None ]

EC2FindingRow(scan_run_id, rec) ==
    [ scan_run_id |-> scan_run_id,
      instance_id |-> rec.instance_id,
      instance_type |-> rec.instance_type,
      avg_cpu_utilization |-> rec.metrics.avg_cpu,
      current_monthly_cost |-> rec.costs.current_monthly_cost,
      potential_monthly_savings |-> rec.recommendation.primary_savings,
      potential_annual_savings |-> rec.recommendation.annual_impact,
      recommendation_type |-> rec.recommendation.action,
      severity |-> rec.recommendation.severity,
      is_implemented |-> FALSE,
      implementation_date |-> None ]

UnattachedVolumeRow(scan_run_id, vol) ==
    [ scan_run_id |-> scan_run_id,
      finding_type |-> "unattached_volume",
      resource_id |-> vol.volume_id,
      volume_type |-> vol.type,
      size_gb |-> vol.size_gb,
      monthly_cost |-> vol.monthly_cost,
      potential_monthly_savings |-> vol.monthly_cost,
      annual_cost |-> vol.annual_cost,
      severity |-> vol.severity,
      is_implemented |-> FALSE,
      implementation_date |-> None ]

TypeOptimizationRow(scan_run_id, opt) ==
    [ scan_run_id |-> scan_run_id,
      finding_type |-> "type_optimization",
      resource_id |-> opt.volume_id,
      volume_type |-> opt.current_type,
      size_gb |-> opt.size_gb,
      monthly_cost |-> opt.current_monthly_cost,
      potential_monthly_savings |-> opt.monthly_savings,
      annual_cost |-> opt.current_monthly_cost * 12,
      severity |-> opt.severity,
      is_implemented |-> FALSE,
      implementation_date |-> None ]

\* results["ebs_findings"].get("findings", {}).get(group, {}).get("items", [])
EBSItems(results, group) ==
    Get(Get(Get(results.ebs_findings, "findings", << >>), group, << >>),
        "items", << >>)

EC2Rows(scan_run_id, results) ==
    LET recs == Get(results.ec2_findings, "recommendations", << >>)
    IN  [ i \in DOMAIN recs |-> EC2FindingRow(scan_run_id, recs[i]) ]

EBSRows(scan_run_id, results) ==
    LET vols == EBSItems(results, "unattached_volumes")
        opts == EBSItems(results, "volume_optimizations")
    IN  [ i \in DOMAIN vols |-> UnattachedVolumeRow(scan_run_id, vols[i]) ]
        \o [ i \in DOMAIN opts |-> TypeOptimizationRow(scan_run_id, opts[i]) ]

\* instances_scanned + the storage summary's total_findings
TotalResourcesScanned(results) ==
    Get(results.ec2_findings, "instances_scanned", 0)
    + Get(Get(results.ebs_findings, "summary", << >>), "total_findings", 0)

\* Rows written over the table's first ids instead of under fresh ones.
InsertAll_from_one(table, first, rows) ==
    [ i \in (DOMAIN table) \cup (1 .. Len(rows)) |->
        IF i \in 1 .. Len(rows) THEN rows[i] ELSE table[i] ]

\* db.add of each row followed by the flush at commit: fresh consecutive ids.
InsertAll(table, first, rows) ==
    [ i \in (DOMAIN table) \cup (first .. (first + Len(rows) - 1)) |->
        IF i \in DOMAIN table THEN table[i] ELSE rows[i - first + 1] ]

\* A ScanRun row; the columns' defaults are those of the table definition.
ScanRun(status) ==
    [ status |-> status,
      notes |-> None,
      total_resources_scanned |-> 0,
      total_recommendations |-> 0,
      potential_monthly_savings |-> 0,
      potential_annual_savings |-> 0 ]

\* scan_run: the pending update of the scan row, if any (a list of 0 or 1).
EmptySession == [ scan_run |-> << >>, ec2 |-> << >>, ebs |-> << >> ]

(***************************************************************************)
(* POST /api/scans/run                                                     *)
(***************************************************************************)
\* The status the spec's state machine starts a scan row in.
trigger_scan_status_pending == "pending"

\* "Create scan record immediately with "running" status"
trigger_scan_status == "running"

trigger_scan(save_to_db) ==
    /\ next_id.scan_runs <= MaxScans
    /\ LET id == next_id.scan_runs
       IN  /\ scan_runs' = InsertAll(scan_runs, id,
                                     << ScanRun(trigger_scan_status) >>)
           /\ next_id' = [ next_id EXCEPT !.scan_runs = id + 1 ]
           /\ tasks' = InsertAll(tasks, id,
                  << [ pc |-> "scheduled", save_to_db |-> save_to_db,
                       results |-> << >>, session |-> EmptySession,
                       error |-> None ] >>)
           /\ response' = [ op |-> "trigger_scan", code |-> 202,
                            scan_id |-> id, status |-> "running" ]
    /\ UNCHANGED << demo_mode, ec2_findings, ebs_findings, savings_realized >>
    /\ UNCHANGED scanner_vars

(***************************************************************************)
(* MasterScanner.__init__: outside demo mode it evaluates profile_name,    *)
(* which is bound nowhere, and raises NameError.                           *)
(***************************************************************************)
MasterScanner_init(is_demo_mode) ==
    IF is_demo_mode
    THEN "ok"
    ELSE IF "profile_name" \in
              (MasterScanner_init_locals \cup master_scanner_module_names)
         THEN "ok"
         ELSE "NameError: name 'profile_name' is not defined"

(***************************************************************************)
(* run_scan_task, in the steps at which other requests can interleave:     *)
(* the scan itself, the query of the scan row, the commit, the handler.    *)
(***************************************************************************)
run_scan_task_scan(id) ==
    /\ id \in DOMAIN tasks
    /\ tasks[id].pc = "scheduled"
    /\ LET constructed == MasterScanner_init(demo_mode)
       IN  IF constructed # "ok"
           THEN tasks' = [ tasks EXCEPT ![id].pc = "except",
                                        ![id].error = constructed ]
           ELSE \* scanner.scan(save_to_db=False) in demo mode
                tasks' = [ tasks EXCEPT ![id].pc = "scanned",
                                        ![id].results = << _generate_demo_data >> ]
    /\ UNCHANGED << demo_mode, scan_runs, ec2_findings, ebs_findings,
                    savings_realized, next_id, response >>
    /\ UNCHANGED scanner_vars

\* The pending changes of the task's session after lines 109-193.
SessionAfterUpdate(id, task) ==
    LET results == task.results[1]
    IN  [ scan_run |-> <<
            [ status |-> "completed",
              potential_monthly_savings |->
                  results.executive_summary.total_monthly_savings,
              potential_annual_savings |->
                  results.executive_summary.total_annual_savings,
              total_recommendations |->
                  results.executive_summary.total_recommendations,
              total_resources_scanned |-> TotalResourcesScanned(results) ] >>,
          ec2 |-> IF task.save_to_db THEN EC2Rows(id, results) ELSE << >>,
          ebs |-> IF task.save_to_db THEN EBSRows(id, results) ELSE << >> ]

run_scan_task_update(id) ==
    /\ id \in DOMAIN tasks
    /\ tasks[id].pc = "scanned"
    /\ IF id \notin DOMAIN scan_runs
       THEN \* .first() is None: scan_run.status raises AttributeError
            tasks' = [ tasks EXCEPT
                ![id].pc = "except",
                ![id].error = "AttributeError: 'NoneType' object has no attribute 'status'" ]
       ELSE tasks' = [ tasks EXCEPT
                ![id].pc = "commit",
                ![id].session = SessionAfterUpdate(id, tasks[id]) ]
    /\ UNCHANGED << demo_mode, scan_runs, ec2_findings, ebs_findings,
                    savings_realized, next_id, response >>
    /\ UNCHANGED scanner_vars

\* The scan row with the session's pending column values written.
UpdatedScanRun(row, upd) ==
    [ row EXCEPT !.status = upd.status,
                 !.potential_monthly_savings = upd.potential_monthly_savings,
                 !.potential_annual_savings = upd.potential_annual_savings,
                 !.total_recommendations = upd.total_recommendations,
                 !.total_resources_scanned = upd.total_resources_scanned ]

\* db.commit() of line 195; db_error: the database rejects the transaction.
run_scan_task_commit(id, db_error) ==
    /\ id \in DOMAIN tasks
    /\ tasks[id].pc = "commit"
    /\ LET s == tasks[id].session
       IN  IF id \notin DOMAIN scan_runs
           THEN \* the row was deleted meanwhile: the UPDATE matches no row
                /\ tasks' = [ tasks EXCEPT ![id].pc = "except",
                                ![id].error = "StaleDataError" ]
                /\ UNCHANGED << scan_runs, ec2_findings, ebs_findings, next_id >>
           ELSE IF db_error
           THEN /\ tasks' = [ tasks EXCEPT ![id].pc = "except",
                                ![id].error = "OperationalError" ]
                /\ UNCHANGED << scan_runs, ec2_findings, ebs_findings, next_id >>
           ELSE /\ scan_runs' = [ scan_runs EXCEPT
                                    ![id] = UpdatedScanRun(@, s.scan_run[1]) ]
                /\ ec2_findings' =
                       InsertAll(ec2_findings, next_id.ec2_findings, s.ec2)
                /\ ebs_findings' =
                       InsertAll(ebs_findings, next_id.ebs_findings, s.ebs)
                /\ next_id' = [ next_id EXCEPT
                       !.ec2_findings = @ + Len(s.ec2),
                       !.ebs_findings = @ + Len(s.ebs) ]
                /\ tasks' = [ tasks EXCEPT ![id].pc = "done",
                                           ![id].session = EmptySession ]
    /\ UNCHANGED << demo_mode, savings_realized, response >>
    /\ UNCHANGED scanner_vars

\* A handler that forgets db.rollback(): the pending changes stay.
Rollback_missing(session) == session

\* db.rollback(): the session's pending changes are dropped.
Rollback(session) == EmptySession

\* A handler that leaves the status as it finds it.
except_status_running == "running"

\* scan_run.status = "failed"
except_status == "failed"

\* The except block, lines 197-204, and the finally block.
run_scan_task_except(id) ==
    /\ id \in DOMAIN tasks
    /\ tasks[id].pc = "except"
    /\ LET s == Rollback(tasks[id].session)
       IN  /\ IF id \in DOMAIN scan_runs
              THEN /\ scan_runs' = [ scan_runs EXCEPT
                          ![id] = [ (IF s.scan_run = << >> THEN @
                                     ELSE UpdatedScanRun(@, s.scan_run[1]))
                                    EXCEPT !.status = except_status,
                                           !.notes = tasks[id].error ] ]
                   /\ ec2_findings' =
                          InsertAll(ec2_findings, next_id.ec2_findings, s.ec2)
                   /\ ebs_findings' =
                          InsertAll(ebs_findings, next_id.ebs_findings, s.ebs)
                   /\ next_id' = [ next_id EXCEPT
                          !.ec2_findings = @ + Len(s.ec2),
                          !.ebs_findings = @ + Len(s.ebs) ]
              ELSE UNCHANGED << scan_runs, ec2_findings, ebs_findings, next_id >>
           /\ tasks' = [ tasks EXCEPT ![id].pc = "failed",
                                      ![id].session = EmptySession ]
    /\ UNCHANGED << demo_mode, savings_realized, response >>
    /\ UNCHANGED scanner_vars

(***************************************************************************)
(* DELETE /api/scans/{scan_id}: the ORM cascade ("all, delete-orphan")     *)
(* deletes the scan's finding rows with it.                                *)
(***************************************************************************)
\* A relationship without the delete cascade: the finding rows stay.
ScanRun_cascade_missing(table, scan_id) == table

\* relationship(..., cascade="all, delete-orphan"): the finding rows of
\* the scan are deleted with it.
ScanRun_cascade(table, scan_id) ==
    DeleteRows(table, { f \in DOMAIN table : table[f].scan_run_id = scan_id })

\* The ledger if deleting a scan also deleted the ledger rows of its
\* findings.
SavingsRealized_cascaded(scan_id) ==
    DeleteRows(savings_realized,
        { r \in DOMAIN savings_realized :
            LET table == IF savings_realized[r].finding_type = "ec2"
                         THEN ec2_findings ELSE ebs_findings
                f == savings_realized[r].finding_id
            IN  f \in DOMAIN table /\ table[f].scan_run_id = scan_id })

\* SavingsRealized.finding_id is a plain Integer column: no foreign key and
\* no relationship, so no cascade reaches the ledger.
SavingsRealized_after_delete(scan_id) == savings_realized

delete_scan(scan_id) ==
    /\ IF scan_id \notin DOMAIN scan_runs
       THEN \* detail="Scan not found"
            /\ response' = [ op |-> "delete_scan", code |-> 404,
                             scan_id |-> 0 ]
            /\ UNCHANGED << scan_runs, ec2_findings, ebs_findings,
                            savings_realized >>
       ELSE /\ scan_runs' = DeleteRows(scan_runs, { scan_id })
            /\ ec2_findings' = ScanRun_cascade(ec2_findings, scan_id)
            /\ ebs_findings' = ScanRun_cascade(ebs_findings, scan_id)
            /\ savings_realized' = SavingsRealized_after_delete(scan_id)
            /\ response' = [ op |-> "delete_scan", code |-> 200,
                             scan_id |-> scan_id ]
    /\ UNCHANGED << demo_mode, next_id, tasks >>
    /\ UNCHANGED scanner_vars

(***************************************************************************)
(* GET /api/scans/{scan_id}/findings: the rows whose scan_run_id is        *)
(* scan_id, by table, and their number.                                    *)
(***************************************************************************)
get_scan_findings(scan_id) ==
    IF scan_id \notin DOMAIN scan_runs
    THEN [ code |-> 404, ec2_findings |-> { }, ebs_findings |-> { },
           summary |-> [ total_findings |-> 0, total_savings |-> 0 ] ]
    ELSE LET ec2_list == { f \in DOMAIN ec2_findings :
                             ec2_findings[f].scan_run_id = scan_id }
             ebs_list == { f \in DOMAIN ebs_findings :
                             ebs_findings[f].scan_run_id = scan_id }
         IN  [ code |-> 200,
               ec2_findings |-> ec2_list,
               ebs_findings |-> ebs_list,
               summary |->
                 [ total_findings |-> Cardinality(ec2_list) + Cardinality(ebs_list),
                   total_savings |-> scan_runs[scan_id].potential_monthly_savings ] ]

(***************************************************************************)
(* The last response.  request holds what the call was about: for a        *)
(* mark_as_implemented call, whether the finding existed and was already   *)
(* implemented when the call arrived, and whether the previous call was a  *)
(* mark_as_implemented call that found the same finding.                   *)
(***************************************************************************)
Response(op, code, kind, id) ==
    [ op |-> op, code |-> code, kind |-> kind, id |-> id,
      status |-> None,
      monthly_savings_realized |-> 0,
      annual_savings_realized |-> 0,
      found |-> FALSE, was_implemented |-> FALSE, repeated |-> FALSE,
      detail |-> None ]

FindingTable(finding_type) ==
    IF finding_type = "ec2" THEN ec2_findings ELSE ebs_findings

\* The call answered as a success although no finding was found.
FindingNotFound_ignored(finding_type) ==
    Response("mark_as_implemented", 200, finding_type, 0)

\* raise HTTPException(status_code=404, detail="EC2 finding not found")
\* and the same for EBS
FindingNotFound(finding_type) ==
    [ Response("mark_as_implemented", 404, finding_type, 0)
        EXCEPT !.detail = "finding not found" ]

(***************************************************************************)
(* POST /api/findings/{finding_type}/{finding_id}/implement                *)
(* Line 122 evaluates datetime, which the module never imports: with the   *)
(* finding found, the handler raises NameError before db.add and           *)
(* db.commit, and get_db closes the session, which drops the pending       *)
(* is_implemented = True.                                                  *)
(***************************************************************************)
mark_as_implemented(finding_type, finding_id) ==
    LET base == Response("mark_as_implemented", 200, finding_type, finding_id)
        repeated == /\ response.op = "mark_as_implemented"
                    /\ response.found
                    /\ response.kind = finding_type
                    /\ response.id = finding_id
    IN
    /\ IF finding_type \notin { "ec2", "ebs" }
       THEN /\ response' = [ Response("mark_as_implemented", 400, None, 0)
                    EXCEPT !.detail = "finding_type must be 'ec2' or 'ebs'" ]
            /\ UNCHANGED << ec2_findings, ebs_findings, savings_realized, next_id >>
       ELSE IF finding_id \notin DOMAIN FindingTable(finding_type)
       THEN /\ response' = FindingNotFound(finding_type)
            /\ UNCHANGED << ec2_findings, ebs_findings, savings_realized, next_id >>
       ELSE LET finding == FindingTable(finding_type)[finding_id]
                savings == finding.potential_monthly_savings
                seen == [ base EXCEPT !.found = TRUE,
                              !.was_implemented = finding.is_implemented,
                              !.repeated = repeated ]
            IN  IF "datetime" \notin findings_module_names
                THEN /\ response' = [ seen EXCEPT !.code = 500,
                            !.detail = "NameError: name 'datetime' is not defined" ]
                     /\ UNCHANGED << ec2_findings, ebs_findings,
                                     savings_realized, next_id >>
                ELSE /\ ec2_findings' =
                          IF finding_type = "ec2"
                          THEN [ ec2_findings EXCEPT
                                   ![finding_id].is_implemented = TRUE,
                                   ![finding_id].implementation_date = "utcnow" ]
                          ELSE ec2_findings
                     /\ ebs_findings' =
                          IF finding_type = "ebs"
                          THEN [ ebs_findings EXCEPT
                                   ![finding_id].is_implemented = TRUE,
                                   ![finding_id].implementation_date = "utcnow" ]
                          ELSE ebs_findings
                     /\ savings_realized' =
                          InsertAll(savings_realized, next_id.savings_realized,
                            << [ finding_type |-> finding_type,
                                 finding_id |-> finding_id,
                                 monthly_savings_realized |-> savings,
                                 annual_savings_realized |-> savings * 12 ] >>)
                     /\ next_id' = [ next_id EXCEPT !.savings_realized = @ + 1 ]
                     /\ response' = [ seen EXCEPT
                            !.monthly_savings_realized = savings,
                            !.annual_savings_realized = savings * 12 ]
    /\ UNCHANGED << demo_mode, scan_runs, tasks >>
    /\ UNCHANGED scanner_vars

(***************************************************************************)
(* python -m backend.scanner.master_scanner: MasterScanner(region) and     *)
(* scan(save_to_db=True).  In demo mode scan() stores the demo report      *)
(* through _save_to_database, which creates the scan row as completed      *)
(* together with its findings in one transaction; if that raises, it       *)
(* rolls back and scan() prints a warning and still returns the report.    *)
(***************************************************************************)
_save_to_database(results) ==
    LET id == next_id.scan_runs
        ec2 == EC2Rows(id, results)
        ebs == EBSRows(id, results)
    IN  /\ scan_runs' = InsertAll(scan_runs, id, <<
              [ ScanRun("completed") EXCEPT
                  !.total_resources_scanned = TotalResourcesScanned(results),
                  !.total_recommendations =
                      results.executive_summary.total_recommendations,
                  !.potential_monthly_savings =
                      results.executive_summary.total_monthly_savings,
                  !.potential_annual_savings =
                      results.executive_summary.total_annual_savings ] >>)
        /\ ec2_findings' = InsertAll(ec2_findings, next_id.ec2_findings, ec2)
        /\ ebs_findings' = InsertAll(ebs_findings, next_id.ebs_findings, ebs)
        /\ next_id' = [ next_id EXCEPT
               !.scan_runs = id + 1,
               !.ec2_findings = @ + Len(ec2),
               !.ebs_findings = @ + Len(ebs) ]

master_scanner_main(db_error) ==
    /\ next_id.scan_runs <= MaxScans
    /\ LET constructed == MasterScanner_init(demo_mode)
           base == Response("master_scanner_main", 0, "scan", 0)
       IN  IF constructed # "ok"
           THEN /\ response' = [ base EXCEPT !.code = 1, !.detail = constructed ]
                /\ UNCHANGED << scan_runs, ec2_findings, ebs_findings, next_id >>
           ELSE IF db_error
           THEN /\ response' = [ base EXCEPT !.status = "report returned",
                       !.detail = "Warning: Could not save demo data to database" ]
                /\ UNCHANGED << scan_runs, ec2_findings, ebs_findings, next_id >>
           ELSE /\ _save_to_database(_generate_demo_data)
                /\ response' = [ base EXCEPT !.id = next_id.scan_runs,
                                             !.status = "report returned",
                                             !.detail = "saved" ]
    /\ UNCHANGED << demo_mode, savings_realized, tasks >>
    /\ UNCHANGED scanner_vars

(***************************************************************************)
(* The API and CLI state machine.                                          *)
(***************************************************************************)
ScannerIdle ==
    /\ inventory = None
    /\ ec2_scan = None
    /\ ebs_scan = None
    /\ report = None

Init ==
    /\ demo_mode \in BOOLEAN
    /\ scan_runs = << >>
    /\ ec2_findings = << >>
    /\ ebs_findings = << >>
    /\ savings_realized = << >>
    /\ next_id = [ scan_runs |-> 1, ec2_findings |-> 1, ebs_findings |-> 1,
                   savings_realized |-> 1 ]
    /\ tasks = << >>
    /\ response = Response("none", 0, None, 0)
    /\ ScannerIdle

FindingTypeArgs == { "ec2", "ebs", "rds" }

\* Every id a table has handed out, and the next one, which no row has.
IdArgs(table_name) == 1 .. next_id[table_name]

Next ==
    \/ \E save_to_db \in BOOLEAN : trigger_scan(save_to_db)
    \/ \E id \in DOMAIN tasks : run_scan_task_scan(id)
    \/ \E id \in DOMAIN tasks : run_scan_task_update(id)
    \/ \E id \in DOMAIN tasks, db_error \in BOOLEAN :
           run_scan_task_commit(id, db_error)
    \/ \E id \in DOMAIN tasks : run_scan_task_except(id)
    \/ \E id \in IdArgs("scan_runs") : delete_scan(id)
    \/ \E ft \in FindingTypeArgs,
          id \in IdArgs("ec2_findings") \cup IdArgs("ebs_findings") :
           mark_as_implemented(ft, id)
    \/ \E db_error \in BOOLEAN : master_scanner_main(db_error)

Spec == Init /\ [][Next]_vars

(***************************************************************************)
(* EC2Scanner: the cost model.                                             *)
(***************************************************************************)
\* Hourly rates in 1/10000 dollar, keyed by the parts of the type name.
_load_pricing ==
    ( << "t3", "nano" >> :> 59 ) @@ ( << "t3", "micro" >> :> 118 ) @@
    ( << "t3", "small" >> :> 236 ) @@ ( << "t3", "medium" >> :> 472 ) @@
    ( << "t3", "large" >> :> 944 ) @@ ( << "t3", "xlarge" >> :> 1888 ) @@
    ( << "t3", "2xlarge" >> :> 3776 ) @@
    ( << "t2", "micro" >> :> 132 ) @@ ( << "t2", "small" >> :> 264 ) @@
    ( << "t2", "medium" >> :> 528 ) @@ ( << "t2", "large" >> :> 1056 ) @@
    ( << "m5", "large" >> :> 1110 ) @@ ( << "m5", "xlarge" >> :> 2220 ) @@
    ( << "m5", "2xlarge" >> :> 4440 ) @@ ( << "m5", "4xlarge" >> :> 8880 ) @@
    ( << "c5", "large" >> :> 1010 ) @@ ( << "c5", "xlarge" >> :> 2020 ) @@
    ( << "c5", "2xlarge" >> :> 4040 ) @@
    ( << "r5", "large" >> :> 1480 ) @@ ( << "r5", "xlarge" >> :> 2960 ) @@
    ( << "r5", "2xlarge" >> :> 5920 )

\* self.pricing.get(instance_type, 0.10)
default_hourly_rate == 1000

hourly_rate(instance_type) ==
    IF instance_type \in DOMAIN _load_pricing
    THEN _load_pricing[instance_type]
    ELSE default_hourly_rate

monthly_hours == 730

\* round(hourly_rate * monthly_hours, 2), in cents
calculate_monthly_cost(instance_type) ==
    RoundDiv(hourly_rate(instance_type) * monthly_hours, 100)

size_order ==
    << "nano", "micro", "small", "medium", "large", "xlarge", "2xlarge",
       "4xlarge", "8xlarge" >>

\* size_order.index(size); 0 stands for the ValueError of a size not listed
SizeIndex(size) ==
    IF \E i \in DOMAIN size_order : size_order[i] = size
    THEN CHOOSE i \in DOMAIN size_order : size_order[i] = size
    ELSE 0

\* Two steps down the ladder instead of one.
smaller_size_two_steps(family, current_index) ==
    IF current_index > 2
    THEN << family, size_order[current_index - 2] >>
    ELSE << >>

\* The next smaller type of the family, or << >> for None.
smaller_size(family, current_index) ==
    IF current_index > 1
    THEN << family, size_order[current_index - 1] >>
    ELSE << >>

_get_smaller_instance_type(instance_type) ==
    IF Len(instance_type) # 2
    THEN << >>
    ELSE smaller_size(instance_type[1], SizeIndex(instance_type[2]))

business_hours_per_week == 50

\* 4.33 weeks per month, in hundredths
weeks_per_month_x100 == 433

\* 50 * 4.33 * hourly rate, in 1/100000 dollar (exact)
business_hours_monthly(instance_type) ==
    (business_hours_per_week * weeks_per_month_x100 * hourly_rate(instance_type))
        \div 10

\* The schedule saving before rounding, in 1/100000 dollar:
\* current_cost - business_hours_monthly
schedule_savings_unrounded(instance_type) ==
    calculate_monthly_cost(instance_type) * 1000
    - business_hours_monthly(instance_type)

\* downsize_savings and the type it names, given the smaller type found
downsize_to(instance_type, smaller_type) ==
    IF smaller_type # << >>
    THEN [ savings |-> calculate_monthly_cost(instance_type)
                       - calculate_monthly_cost(smaller_type),
           new_type |-> smaller_type ]
    ELSE [ savings |-> 0, new_type |-> instance_type ]

downsize_scenario(instance_type) ==
    downsize_to(instance_type, _get_smaller_instance_type(instance_type))

\* The dictionary calculate_savings_scenarios returns.
savings_scenarios(current_cost, schedule_savings, downsize) ==
    [ current_monthly_cost |-> current_cost,
      scenarios |->
        [ schedule |->
            [ monthly_savings |-> RoundDiv(schedule_savings, 1000),
              annual_savings |-> RoundDiv(schedule_savings * 12, 1000),
              new_type |-> << >> ],
          downsize |->
            [ monthly_savings |-> downsize.savings,
              annual_savings |-> downsize.savings * 12,
              new_type |-> downsize.new_type ],
          terminate |->
            [ monthly_savings |-> current_cost,
              annual_savings |-> current_cost * 12,
              new_type |-> << >> ] ] ]

\* All amounts in cents; the annual amounts are round(x * 12, 2) of the
\* amount before its own rounding.
calculate_savings_scenarios(instance_type, avg_cpu) ==
    savings_scenarios(calculate_monthly_cost(instance_type),
                      schedule_savings_unrounded(instance_type),
                      downsize_scenario(instance_type))

(***************************************************************************)
(* EC2Scanner: inventory, metrics and the classifier.                      *)
(***************************************************************************)
\* Only running instances are analysed.
get_all_instances(provider_instances) ==
    SelectSeq(provider_instances, LAMBDA i : i.state = "running")

\* round(x / n, 2) of hundredths: the mean of the datapoints' averages
Mean(values) == RoundDiv(SumSeq(values), Len(values))

RECURSIVE MaxSeq(_)
MaxSeq(values) ==
    IF Len(values) = 1 THEN Head(values)
    ELSE LET m == MaxSeq(Tail(values))
         IN  IF Head(values) > m THEN Head(values) ELSE m

RECURSIVE MinSeq(_)
MinSeq(values) ==
    IF Len(values) = 1 THEN Head(values)
    ELSE LET m == MinSeq(Tail(values))
         IN  IF Head(values) < m THEN Head(values) ELSE m

\* cloudwatch: what get_metric_statistics does for the instance: it raises,
\* or returns the datapoints (possibly none).  has_min: the "min" key.
get_cpu_metrics(cloudwatch) ==
    IF cloudwatch.raises
    THEN [ avg |-> 0, max |-> 0, min |-> 0, has_min |-> FALSE,
           datapoints |-> 0, status |-> "error" ]
    ELSE IF cloudwatch.Datapoints = << >>
    THEN [ avg |-> 0, max |-> 0, min |-> 0, has_min |-> FALSE,
           datapoints |-> 0, status |-> "no_data" ]
    ELSE LET averages == [ i \in DOMAIN cloudwatch.Datapoints |->
                             cloudwatch.Datapoints[i].Average ]
             maximums == [ i \in DOMAIN cloudwatch.Datapoints |->
                             cloudwatch.Datapoints[i].Maximum ]
         IN  [ avg |-> Mean(averages), max |-> MaxSeq(maximums),
               min |-> MinSeq(averages), has_min |-> TRUE,
               datapoints |-> Len(cloudwatch.Datapoints), status |-> "ok" ]

\* The if/elif chain on avg_cpu (in hundredths of a percent).
severity_of(avg_cpu) ==
    IF avg_cpu < 200 THEN "critical"
    ELSE IF avg_cpu < 500 THEN "high"
    ELSE IF avg_cpu < 1000 THEN "medium"
    ELSE IF avg_cpu < 2000 THEN "low"
    ELSE "info"

recommended_action_of(avg_cpu) ==
    IF avg_cpu < 200 THEN "terminate"
    ELSE IF avg_cpu < 500 THEN "schedule"
    ELSE IF avg_cpu < 1000 THEN "downsize"
    ELSE IF avg_cpu < 2000 THEN "schedule"
    ELSE "none"

\* error is None and finding holds the recommendation, or error names the
\* exception raised and finding is empty.
recommendation_dict(instance, cpu_metrics, savings, severity, recommended_action) ==
    IF recommended_action \notin DOMAIN savings.scenarios
    THEN \* savings["scenarios"][recommended_action]
         [ error |-> "KeyError: 'none'", finding |-> << >> ]
    ELSE [ error |-> None,
           finding |-> <<
             [ instance_id |-> instance.id,
               instance_type |-> instance.type,
               metrics |-> [ avg_cpu |-> cpu_metrics.avg,
                             max_cpu |-> cpu_metrics.max,
                             min_cpu |-> IF cpu_metrics.has_min
                                         THEN cpu_metrics.min ELSE 0,
                             datapoints |-> cpu_metrics.datapoints ],
               costs |-> savings,
               recommendation |->
                 [ severity |-> severity,
                   action |-> recommended_action,
                   primary_savings |->
                     savings.scenarios[recommended_action].monthly_savings,
                   annual_impact |->
                     savings.scenarios[recommended_action].annual_savings ],
               all_scenarios |-> savings.scenarios ] >> ]

generate_recommendation(instance, cpu_metrics) ==
    recommendation_dict(instance, cpu_metrics,
                        calculate_savings_scenarios(instance.type, cpu_metrics.avg),
                        severity_of(cpu_metrics.avg),
                        recommended_action_of(cpu_metrics.avg))

\* The loop of scan(): one recommendation per instance, in order; the
\* first exception ends the scan.
RECURSIVE AnalyzeInstances(_, _)
AnalyzeRest(instances, recommendations, r) ==
    IF r.error # None
    THEN [ error |-> r.error, recommendations |-> recommendations ]
    ELSE AnalyzeInstances(instances, recommendations \o r.finding)

AnalyzeInstances(instances, recommendations) ==
    IF instances = << >>
    THEN [ error |-> None, recommendations |-> recommendations ]
    ELSE AnalyzeRest(Tail(instances), recommendations,
                     generate_recommendation(
                         Head(instances),
                         get_cpu_metrics(Head(instances).cloudwatch)))

\* list.sort(key=primary_savings, reverse=True): stable, highest first.
RECURSIVE InsertBySavings(_, _)
InsertBySavings(sorted, r) ==
    IF sorted = << >> THEN << r >>
    ELSE IF Head(sorted).recommendation.primary_savings
              >= r.recommendation.primary_savings
         THEN << Head(sorted) >> \o InsertBySavings(Tail(sorted), r)
         ELSE << r >> \o sorted

RECURSIVE SortBySavings(_)
SortBySavings(recommendations) ==
    IF recommendations = << >> THEN << >>
    ELSE InsertBySavings(
             SortBySavings(SubSeq(recommendations, 1, Len(recommendations) - 1)),
             recommendations[Len(recommendations)])

\* The severities whose savings EC2Scanner.scan adds up.
ec2_counted_severities == { "critical", "high", "medium" }

CountSeverity(recommendations, severity) ==
    Cardinality({ i \in DOMAIN recommendations :
                    recommendations[i].recommendation.severity = severity })

\* sum of primary_savings over the severities counted
total_monthly_savings(recommendations) ==
    SumSeq([ i \in DOMAIN recommendations |->
        IF recommendations[i].recommendation.severity \in ec2_counted_severities
        THEN recommendations[i].recommendation.primary_savings
        ELSE 0 ])

\* The dictionary scan() returns for a non-empty inventory.
scan_result(instances, recommendations, total) ==
    [ status |-> "success",
      instances_scanned |-> Len(instances),
      recommendations |-> SortBySavings(recommendations),
      summary |->
        [ critical |-> CountSeverity(recommendations, "critical"),
          high |-> CountSeverity(recommendations, "high"),
          medium |-> CountSeverity(recommendations, "medium"),
          low |-> CountSeverity(recommendations, "low") ],
      potential_savings |-> [ monthly |-> total, annual |-> total * 12 ] ]

\* Steps 3 and 4 of scan(), unless the loop raised.
scan_analysed(instances, analysed) ==
    IF analysed.error # None
    THEN [ error |-> analysed.error, result |-> << >> ]
    ELSE [ error |-> None,
           result |-> << scan_result(instances, analysed.recommendations,
                             total_monthly_savings(analysed.recommendations)) >> ]

scan_instances(instances) ==
    IF instances = << >>
    THEN [ error |-> None,
           result |-> << [ status |-> "success",
                           instances_scanned |-> 0,
                           recommendations |-> << >>,
                           total_potential_savings |-> 0 ] >> ]
    ELSE scan_analysed(instances, AnalyzeInstances(instances, << >>))

\* EC2Scanner.scan(): error is None and result holds the sub-report, or
\* error names the exception that left scan() and result is empty.
EC2Scanner_scan(provider_instances) ==
    scan_instances(get_all_instances(provider_instances))

(***************************************************************************)
(* Properties of the API and CLI state machine (specification Spec).       *)
(***************************************************************************)
LedgerRows(finding_type, finding_id) ==
    { r \in DOMAIN savings_realized :
        /\ savings_realized[r].finding_type = finding_type
        /\ savings_realized[r].finding_id = finding_id }

FindingsOfScan(scan_id) ==
    { << "ec2", f >> : f \in { g \in DOMAIN ec2_findings :
                                 ec2_findings[g].scan_run_id = scan_id } }
    \cup
    { << "ebs", f >> : f \in { g \in DOMAIN ebs_findings :
                                 ebs_findings[g].scan_run_id = scan_id } }

ScanStatusStep(allowed_new) ==
    \A id \in DOMAIN scan_runs' :
        IF id \in DOMAIN scan_runs
        THEN \/ scan_runs'[id].status = scan_runs[id].status
             \/ /\ scan_runs[id].status = "pending"
                /\ scan_runs'[id].status = "running"
             \/ /\ scan_runs[id].status = "running"
                /\ scan_runs'[id].status \in { "completed", "failed" }
        ELSE /\ scan_runs'[id].status \in allowed_new
             /\ id >= next_id.scan_runs

\* C2 as amended: an existing scan row's status changes only from running
\* to completed or failed, and a completed or failed row never changes
\* status again; a row is created under an id never used before, either
\* running (trigger_scan) or already completed
\* (MasterScanner._save_to_database, after the scan has finished).
C2_StatusChangesOnlyForward ==
    [][ ScanStatusStep({ "running", "completed" }) ]_vars

\* C2 as stated: every row starts pending or running and reaches completed
\* or failed only from running.
C2_NeverCompletedWithoutRunning ==
    [][ ScanStatusStep({ "pending", "running" }) ]_vars

\* C2 witness: one scan completed by its background task, another failed.
C2_TaskCompletedAndTaskFailed ==
    \E a, b \in DOMAIN scan_runs :
        /\ a \in DOMAIN tasks /\ tasks[a].pc = "done"
        /\ scan_runs[a].status = "completed"
        /\ b \in DOMAIN tasks /\ tasks[b].pc = "failed"
        /\ scan_runs[b].status = "failed"

ActionableSavings(results) ==
    LET recs == Get(results.ec2_findings, "recommendations", << >>)
        vols == EBSItems(results, "unattached_volumes")
        snaps == EBSItems(results, "old_snapshots")
        opts == EBSItems(results, "volume_optimizations")
        low == EBSItems(results, "low_activity_volumes")
    IN  SumSeq([ i \in DOMAIN recs |->
                   IF recs[i].recommendation.severity # "info"
                   THEN recs[i].recommendation.primary_savings ELSE 0 ])
        + SumSeq([ i \in DOMAIN vols |->
                   IF vols[i].severity # "info"
                   THEN vols[i].monthly_cost ELSE 0 ])
        + SumSeq([ i \in DOMAIN snaps |->
                   IF snaps[i].severity # "info"
                   THEN snaps[i].monthly_cost ELSE 0 ])
        + SumSeq([ i \in DOMAIN opts |->
                   IF opts[i].severity # "info"
                   THEN opts[i].monthly_savings ELSE 0 ])
        + SumSeq([ i \in DOMAIN low |->
                   IF low[i].severity # "info"
                   THEN low[i].monthly_cost ELSE 0 ])

\* C5: the demo report's executive_summary.total_monthly_savings is the sum
\* of the primary savings of its non-info findings, in every scan task that
\* holds it and in every scan row stored from it.
C5_DemoSummaryIsSumOfFindings ==
    /\ \A id \in DOMAIN tasks :
         tasks[id].results # << >> =>
            tasks[id].results[1].executive_summary.total_monthly_savings
                = ActionableSavings(tasks[id].results[1])
    /\ \A id \in DOMAIN scan_runs :
         scan_runs[id].status = "completed" =>
            scan_runs[id].potential_monthly_savings
                = ActionableSavings(_generate_demo_data)

\* C5 witness: a demo scan has produced its report and stored its findings.
C5_DemoReportStored ==
    \E id \in DOMAIN tasks :
        /\ demo_mode
        /\ tasks[id].pc = "done"
        /\ tasks[id].results # << >>
        /\ Cardinality(FindingsOfScan(id)) = 4

\* C10: a mark_as_implemented call on an existing, not yet implemented
\* finding succeeds: the finding is implemented and timestamped, exactly
\* one ledger row holds its potential_monthly_savings, and the annual amount
\* returned is 12 times the monthly amount returned.
C10_MarkSucceeds ==
    ( /\ response.op = "mark_as_implemented"
      /\ response.found
      /\ ~ response.was_implemented )
    => /\ response.code = 200
       /\ response.annual_savings_realized = 12 * response.monthly_savings_realized
       /\ response.id \in DOMAIN FindingTable(response.kind) =>
            /\ FindingTable(response.kind)[response.id].is_implemented
            /\ FindingTable(response.kind)[response.id].implementation_date # None
            /\ \E r \in DOMAIN savings_realized :
                 /\ LedgerRows(response.kind, response.id) = { r }
                 /\ savings_realized[r].monthly_savings_realized =
                      FindingTable(response.kind)[response.id].potential_monthly_savings
                 /\ response.monthly_savings_realized =
                      savings_realized[r].monthly_savings_realized

(***************************************************************************)
(* The compute scanner on its own (specification EC2Spec): the inventory   *)
(* and the CloudWatch answers are the inputs, EC2Scanner.scan() runs once. *)
(***************************************************************************)
MaxInstances == 2

Datapoint(average, maximum) == [ Average |-> average, Maximum |-> maximum ]

\* avg_cpu values (hundredths of a percent) on both sides of each threshold
AverageSamples ==
    { 0, 150, 199, 200, 300, 499, 500, 700, 999, 1000, 1500, 1999, 2000,
      2500, 10000 }

CloudwatchSamples ==
    { [ raises |-> TRUE, Datapoints |-> << >> ],
      [ raises |-> FALSE, Datapoints |-> << >> ],
      [ raises |-> FALSE,
        Datapoints |-> << Datapoint(100, 400), Datapoint(200, 9000) >> ] }
    \cup { [ raises |-> FALSE, Datapoints |-> << Datapoint(a, a) >> ] :
             a \in AverageSamples }

InstanceTypeSamples ==
    DOMAIN _load_pricing
    \cup { << "t2", "nano" >>, << "x1", "32xlarge" >>, << "metal" >>,
           << "u", "6tb1", "metal" >> }

Instance(id, type, state, cloudwatch) ==
    [ id |-> id, type |-> type, state |-> state, cloudwatch |-> cloudwatch ]

\* Every type with every CloudWatch answer, one instance at a time.
SingleInstanceInventories ==
    { << Instance(1, t, st, cw) >> :
        t \in InstanceTypeSamples, st \in { "running", "stopped" },
        cw \in CloudwatchSamples }

MixedInstanceSamples ==
    { [ type |-> << "t3", "large" >>, state |-> "running",
        cloudwatch |-> [ raises |-> FALSE,
                         Datapoints |-> << Datapoint(150, 300) >> ] ],
      [ type |-> << "m5", "large" >>, state |-> "running",
        cloudwatch |-> [ raises |-> FALSE,
                         Datapoints |-> << Datapoint(300, 900) >> ] ],
      [ type |-> << "t2", "micro" >>, state |-> "running",
        cloudwatch |-> [ raises |-> FALSE,
                         Datapoints |-> << Datapoint(700, 2000) >> ] ],
      [ type |-> << "t3", "large" >>, state |-> "running",
        cloudwatch |-> [ raises |-> FALSE,
                         Datapoints |-> << Datapoint(1500, 4000) >> ] ],
      [ type |-> << "c5", "large" >>, state |-> "running",
        cloudwatch |-> [ raises |-> FALSE,
                         Datapoints |-> << Datapoint(2500, 8000) >> ] ],
      [ type |-> << "m5", "xlarge" >>, state |-> "running",
        cloudwatch |-> [ raises |-> TRUE, Datapoints |-> << >> ] ],
      [ type |-> << "t3", "nano" >>, state |-> "stopped",
        cloudwatch |-> [ raises |-> FALSE, Datapoints |-> << >> ] ] }

WithIds(samples) ==
    [ i \in DOMAIN samples |->
        Instance(i, samples[i].type, samples[i].state, samples[i].cloudwatch) ]

\* Inventories of up to MaxInstances instances of mixed kinds.
MixedInventories ==
    { WithIds(q) :
        q \in UNION { [ 1 .. n -> MixedInstanceSamples ] : n \in 0 .. MaxInstances } }

ScanIdle == [ pc |-> "idle", error |-> None, result |-> << >> ]

\* A scan that has returned its sub-report or raised.
Ended(r) ==
    [ pc |-> IF r.error = None THEN "returned" ELSE "raised",
      error |-> r.error,
      result |-> r.result ]

ApiIdle ==
    /\ demo_mode = FALSE
    /\ scan_runs = << >>
    /\ ec2_findings = << >>
    /\ ebs_findings = << >>
    /\ savings_realized = << >>
    /\ next_id = [ scan_runs |-> 1, ec2_findings |-> 1, ebs_findings |-> 1,
                   savings_realized |-> 1 ]
    /\ tasks = << >>
    /\ response = Response("none", 0, None, 0)

EC2Init ==
    /\ ApiIdle
    /\ inventory \in
           { [ instances |-> i, volumes |-> << >>, snapshots |-> << >> ] :
               i \in SingleInstanceInventories \cup MixedInventories }
    /\ ec2_scan = ScanIdle
    /\ ebs_scan = None
    /\ report = None

\* scanner.scan() of the module's __main__ block
ec2_scanner_main ==
    /\ ec2_scan.pc = "idle"
    /\ ec2_scan' = Ended(EC2Scanner_scan(inventory.instances))
    /\ UNCHANGED << api_vars, inventory, ebs_scan, report >>

EC2Next == ec2_scanner_main

EC2Spec == EC2Init /\ [][EC2Next]_vars

(***************************************************************************)
(* Properties of the compute scanner (specification EC2Spec).              *)
(***************************************************************************)
RunningInstances == get_all_instances(inventory.instances)

ScanEnded == ec2_scan.pc \in { "returned", "raised" }

Recommendations == IF ec2_scan.result = << >> THEN << >>
                   ELSE ec2_scan.result[1].recommendations

\* C6: when a scan has ended it has not raised, and it holds exactly one
\* finding for every running instance (none for stopped ones), whatever
\* the utilization, avg_cpu >= 20 included.
C6_OneFindingPerRunningInstance ==
    ScanEnded =>
        /\ ec2_scan.pc = "returned"
        /\ Len(Recommendations) = Len(RunningInstances)
        /\ \A k \in DOMAIN RunningInstances :
               Cardinality({ j \in DOMAIN Recommendations :
                   Recommendations[j].instance_id = RunningInstances[k].id }) = 1

\* The decision table as the specification states it.
TableSeverity(avg_cpu) ==
    CASE avg_cpu < 200 -> "critical"
      [] avg_cpu >= 200 /\ avg_cpu < 500 -> "high"
      [] avg_cpu >= 500 /\ avg_cpu < 1000 -> "medium"
      [] avg_cpu >= 1000 /\ avg_cpu < 2000 -> "low"
      [] OTHER -> "info"

TableAction(avg_cpu) ==
    CASE avg_cpu < 200 -> "terminate"
      [] avg_cpu >= 200 /\ avg_cpu < 500 -> "schedule"
      [] avg_cpu >= 500 /\ avg_cpu < 1000 -> "downsize"
      [] avg_cpu >= 1000 /\ avg_cpu < 2000 -> "schedule"
      [] OTHER -> "none"

\* C7: when a scan has ended, every running instance has a finding whose
\* severity and action are the table's row for its avg_cpu alone, the
\* (info, none) row for avg_cpu >= 20 included.
C7_SeverityAndActionFollowTable ==
    ScanEnded =>
        \A k \in DOMAIN RunningInstances :
            LET avg_cpu == get_cpu_metrics(RunningInstances[k].cloudwatch).avg
            IN  \E j \in DOMAIN Recommendations :
                    /\ Recommendations[j].instance_id = RunningInstances[k].id
                    /\ Recommendations[j].recommendation.severity
                           = TableSeverity(avg_cpu)
                    /\ Recommendations[j].recommendation.action
                           = TableAction(avg_cpu)

\* C8: every compute finding's primary_savings is the monthly_savings of
\* the scenario its action names, and its annual_impact is exactly twelve
\* times that rounded monthly amount.
C8_AnnualIsTwelveTimesPrimary ==
    \A j \in DOMAIN Recommendations :
        LET rec == Recommendations[j].recommendation
        IN  /\ rec.primary_savings
                 = Recommendations[j].all_scenarios[rec.action].monthly_savings
            /\ rec.annual_impact = rec.primary_savings * 12

\* C9: every compute finding's monthly cost, its schedule, downsize and
\* terminate monthly savings and its primary_savings are non-negative.
C9_SavingsNonNegative ==
    \A j \in DOMAIN Recommendations :
        /\ Recommendations[j].costs.current_monthly_cost >= 0
        /\ \A a \in DOMAIN Recommendations[j].all_scenarios :
               Recommendations[j].all_scenarios[a].monthly_savings >= 0
        /\ Recommendations[j].recommendation.primary_savings >= 0

\* C13: when the CPU statistics of a running instance cannot be fetched,
\* the scan still returns, that instance has its finding computed as for 0%
\* utilization (critical, terminate), and every other running instance of
\* the scan has its finding too.
C13_FailedFetchNeverFailsScan ==
    ( /\ ScanEnded
      /\ \E k \in DOMAIN RunningInstances :
             RunningInstances[k].cloudwatch.raises )
    => /\ ec2_scan.pc = "returned"
       /\ \A k \in DOMAIN RunningInstances :
            \E j \in DOMAIN Recommendations :
               /\ Recommendations[j].instance_id = RunningInstances[k].id
               /\ RunningInstances[k].cloudwatch.raises =>
                    /\ Recommendations[j].metrics.avg_cpu = 0
                    /\ Recommendations[j].recommendation.severity = "critical"
                    /\ Recommendations[j].recommendation.action = "terminate"

\* The ladder as the specification states it.
Ladder ==
    << "nano", "micro", "small", "medium", "large", "xlarge", "2xlarge",
       "4xlarge", "8xlarge" >>

\* The positions of a type on the ladder: one if its name is family.size
\* with size on the ladder, none otherwise.
LadderPositions(instance_type) ==
    IF Len(instance_type) # 2 THEN { }
    ELSE { k \in DOMAIN Ladder : Ladder[k] = instance_type[2] }

\* C25: in every finding the downsize scenario names the type one step down
\* the ladder within the same family, with savings equal to the current
\* monthly cost minus that type's monthly cost; for the smallest size, and
\* for a type whose size is not on the ladder, it names the current type
\* with savings 0.
C25_DownsizeIsOneStepDown ==
    \A j \in DOMAIN Recommendations :
        LET t == Recommendations[j].instance_type
            downsize == Recommendations[j].all_scenarios.downsize
        IN  IF \E k \in LadderPositions(t) : k > 1
            THEN \A k \in LadderPositions(t) :
                   /\ downsize.new_type = << t[1], Ladder[k - 1] >>
                   /\ downsize.monthly_savings
                        = Recommendations[j].costs.current_monthly_cost
                          - calculate_monthly_cost(<< t[1], Ladder[k - 1] >>)
            ELSE /\ downsize.new_type = t
                 /\ downsize.monthly_savings = 0

\* C25 witness: a returned scan holds a finding for a t3.large whose
\* downsize scenario names t3.medium with a saving.
C25_LargeDownsizedToMedium ==
    /\ ec2_scan.pc = "returned"
    /\ \E j \in DOMAIN Recommendations :
         /\ Recommendations[j].instance_type = << "t3", "large" >>
         /\ Recommendations[j].all_scenarios.downsize.new_type
                = << "t3", "medium" >>
         /\ Recommendations[j].all_scenarios.downsize.monthly_savings > 0

(***************************************************************************)
(* EBSScanner.  Prices in 1/1000 dollar per GB-month, amounts in cents.    *)
(***************************************************************************)
volume_pricing ==
    [ gp3 |-> 96, gp2 |-> 120, io1 |-> 140, io2 |-> 140, st1 |-> 54,
      sc1 |-> 18, standard |-> 60 ]

\* self.volume_pricing.get(volume_type, 0.10)
default_volume_price == 100

snapshot_pricing == 53

\* round(size_gb * price_per_gb, 2)
_calculate_volume_cost(size_gb, volume_type) ==
    RoundDiv(size_gb * Get(volume_pricing, volume_type, default_volume_price), 10)

unattached_severity_inclusive(age_days) ==
    IF age_days >= 90 THEN "critical"
    ELSE IF age_days >= 30 THEN "high"
    ELSE IF age_days >= 7 THEN "medium"
    ELSE "low"

unattached_severity(age_days) ==
    IF age_days > 90 THEN "critical"
    ELSE IF age_days > 30 THEN "high"
    ELSE IF age_days > 7 THEN "medium"
    ELSE "low"

find_unattached_volumes(all_volumes) ==
    LET available == SelectSeq(all_volumes, LAMBDA v : v.state = "available")
    IN  [ i \in DOMAIN available |->
            LET volume == available[i]
                monthly_cost == _calculate_volume_cost(volume.size, volume.type)
            IN  [ volume_id |-> volume.id,
                  size_gb |-> volume.size,
                  type |-> volume.type,
                  age_days |-> volume.age_days,
                  monthly_cost |-> monthly_cost,
                  annual_cost |-> monthly_cost * 12,
                  severity |-> unattached_severity(volume.age_days) ] ]

snapshot_age_threshold_days == 180

\* str.lower() on a description, a sequence of characters: the letters
\* A-Z are mapped to a-z, every other character is kept.
upper_case == << "A", "B", "C", "D", "E", "F", "G", "H", "I", "J", "K", "L",
                 "M", "N", "O", "P", "Q", "R", "S", "T", "U", "V", "W", "X",
                 "Y", "Z" >>

lower_case == << "a", "b", "c", "d", "e", "f", "g", "h", "i", "j", "k", "l",
                 "m", "n", "o", "p", "q", "r", "s", "t", "u", "v", "w", "x",
                 "y", "z" >>

\* A lower() that leaves the text as it is.
lower_identity(text) == text

lower(text) ==
    [ i \in DOMAIN text |->
        IF \E k \in DOMAIN upper_case : upper_case[k] = text[i]
        THEN lower_case[CHOOSE k \in DOMAIN upper_case : upper_case[k] = text[i]]
        ELSE text[i] ]

\* sub in text
Contains(text, sub) ==
    \E start \in 0 .. (Len(text) - Len(sub)) :
        \A i \in DOMAIN sub : text[start + i] = sub[i]

ami_marker == << "a", "m", "i" >>

createimage_marker ==
    << "c", "r", "e", "a", "t", "e", "d", " ", "b", "y", " ",
       "c", "r", "e", "a", "t", "e", "i", "m", "a", "g", "e" >>

\* "ami" in description or "created by createimage" in description
is_ami_description(description) ==
    \/ Contains(description, ami_marker)
    \/ Contains(description, createimage_marker)

find_old_snapshots(snapshots) ==
    LET old == SelectSeq(snapshots,
                         LAMBDA sn : sn.age_days > snapshot_age_threshold_days)
    IN  [ i \in DOMAIN old |->
            LET snapshot == old[i]
                monthly_cost == snapshot.size * snapshot_pricing
                is_ami_snapshot == is_ami_description(lower(snapshot.description))
            IN  [ snapshot_id |-> snapshot.id,
                  size_gb |-> snapshot.size,
                  age_days |-> snapshot.age_days,
                  monthly_cost |-> RoundDiv(monthly_cost, 10),
                  annual_cost |-> RoundDiv(monthly_cost * 12, 10),
                  description |-> snapshot.description,
                  is_ami_snapshot |-> is_ami_snapshot,
                  severity |-> IF is_ami_snapshot THEN "low" ELSE "medium" ] ]

low_iops_threshold == 10000

\* The entry for one volume: a list of 0 or 1 optimizations, or the
\* TypeError of comparing an absent (None) Iops with a number.
volume_type_optimization(volume) ==
    LET current_cost == _calculate_volume_cost(volume.size, volume.type)
        new_cost == _calculate_volume_cost(volume.size, "gp3")
        migrate(severity) ==
            [ volume_id |-> volume.id,
              current_type |-> volume.type,
              recommended_type |-> "gp3",
              size_gb |-> volume.size,
              current_monthly_cost |-> current_cost,
              new_monthly_cost |-> new_cost,
              monthly_savings |-> current_cost - new_cost,
              annual_savings |-> (current_cost - new_cost) * 12,
              severity |-> severity ]
    IN  IF volume.type = "gp2"
        THEN [ error |-> None, items |-> << migrate("medium") >> ]
        ELSE IF volume.type \in { "io1", "io2" }
        THEN IF volume.iops = << >>
             THEN [ error |-> "TypeError: '<' not supported between NoneType and int",
                    items |-> << >> ]
             ELSE IF volume.iops[1] < low_iops_threshold
             THEN [ error |-> None, items |-> << migrate("high") >> ]
             ELSE [ error |-> None, items |-> << >> ]
        ELSE [ error |-> None, items |-> << >> ]

RECURSIVE find_volume_type_optimizations(_)
find_volume_type_optimizations(all_volumes) ==
    IF all_volumes = << >>
    THEN [ error |-> None, items |-> << >> ]
    ELSE LET first == volume_type_optimization(Head(all_volumes))
             rest == find_volume_type_optimizations(Tail(all_volumes))
         IN  IF first.error # None THEN first
             ELSE IF rest.error # None THEN rest
             ELSE [ error |-> None, items |-> first.items \o rest.items ]

\* A failed CloudWatch call counts as no I/O at all.
_get_volume_io_stats(volume) ==
    IF volume.io.raises
    THEN [ total_read_ops |-> 0, total_write_ops |-> 0 ]
    ELSE [ total_read_ops |-> volume.io.read_ops,
           total_write_ops |-> volume.io.write_ops ]

low_activity_threshold == 100

find_low_activity_volumes(all_volumes) ==
    LET total_io(v) == _get_volume_io_stats(v).total_read_ops
                       + _get_volume_io_stats(v).total_write_ops
        idle == SelectSeq(all_volumes,
                          LAMBDA v : v.state = "in-use"
                                     /\ total_io(v) < low_activity_threshold)
    IN  [ i \in DOMAIN idle |->
            [ volume_id |-> idle[i].id,
              size_gb |-> idle[i].size,
              type |-> idle[i].type,
              io_stats |-> _get_volume_io_stats(idle[i]),
              monthly_cost |-> _calculate_volume_cost(idle[i].size, idle[i].type),
              severity |-> "medium" ] ]

SumOf(items, amount(_)) == SumSeq([ i \in DOMAIN items |-> amount(items[i]) ])

ebs_total_all_snapshots_x2(unattached_cost, optimization_savings, snapshot_cost) ==
    2 * unattached_cost + 2 * optimization_savings + 2 * snapshot_cost

\* unattached_cost + optimization_savings + snapshot_cost * 0.5, in half
\* cents
ebs_total_monthly_savings_x2(unattached_cost, optimization_savings, snapshot_cost) ==
    2 * unattached_cost + 2 * optimization_savings + snapshot_cost

\* EBSScanner.scan(): error is None and result holds the sub-report, or
\* error names the exception that left scan() and result is empty.
EBSScanner_scan(all_volumes, snapshots) ==
    LET unattached == find_unattached_volumes(all_volumes)
        unattached_cost == SumOf(unattached, LAMBDA v : v.monthly_cost)
        old_snapshots == find_old_snapshots(snapshots)
        snapshot_cost == SumOf(old_snapshots, LAMBDA sn : sn.monthly_cost)
        found == find_volume_type_optimizations(all_volumes)
        optimizations == found.items
        optimization_savings == SumOf(optimizations, LAMBDA o : o.monthly_savings)
        low_activity == find_low_activity_volumes(all_volumes)
        low_activity_cost == SumOf(low_activity, LAMBDA v : v.monthly_cost)
        total_monthly_savings_x2 ==
            ebs_total_monthly_savings_x2(unattached_cost, optimization_savings,
                                         snapshot_cost)
    IN  IF found.error # None
        THEN [ error |-> found.error, result |-> << >> ]
        ELSE [ error |-> None,
               result |-> <<
                 [ status |-> "success",
                   findings |->
                     [ unattached_volumes |->
                         [ count |-> Len(unattached),
                           items |-> unattached,
                           total_monthly_cost |-> unattached_cost ],
                       old_snapshots |->
                         [ count |-> Len(old_snapshots),
                           items |-> old_snapshots,
                           total_monthly_cost |-> snapshot_cost ],
                       volume_optimizations |->
                         [ count |-> Len(optimizations),
                           items |-> optimizations,
                           potential_monthly_savings |-> optimization_savings ],
                       low_activity_volumes |->
                         [ count |-> Len(low_activity),
                           items |-> low_activity,
                           potential_monthly_cost |-> low_activity_cost ] ],
                   summary |->
                     [ total_findings |-> Len(unattached) + Len(old_snapshots)
                                          + Len(optimizations),
                       critical_severity |->
                           CountSeq(unattached, LAMBDA v : v.severity = "critical"),
                       high_severity |->
                           CountSeq(unattached, LAMBDA v : v.severity = "high"),
                       medium_severity |->
                           CountSeq(unattached, LAMBDA v : v.severity = "medium")
                           + Len(optimizations) ],
                   potential_savings |->
                     [ monthly |-> RoundDiv(total_monthly_savings_x2, 2),
                       annual |-> RoundDiv(total_monthly_savings_x2 * 12, 2) ] ] >> ]

(***************************************************************************)
(* MasterScanner.scan(), live branch (specification LiveSpec).  The state  *)
(* starts with a MasterScanner whose ec2_scanner and ebs_scanner exist,    *)
(* as lines 37-38 of __init__ set them once profile_name is bound;         *)
(* MasterScanner_init above models the constructor as shipped.             *)
(***************************************************************************)
MaxVolumes == 2

MaxSnapshots == 1

LiveInstanceSamples ==
    { [ type |-> << "t3", "large" >>, state |-> "running",
        cloudwatch |-> [ raises |-> FALSE,
                         Datapoints |-> << Datapoint(150, 300) >> ] ],
      [ type |-> << "t3", "large" >>, state |-> "running",
        cloudwatch |-> [ raises |-> FALSE,
                         Datapoints |-> << Datapoint(1500, 4000) >> ] ],
      [ type |-> << "c5", "large" >>, state |-> "running",
        cloudwatch |-> [ raises |-> FALSE,
                         Datapoints |-> << Datapoint(2500, 8000) >> ] ] }

Io(raises, read_ops, write_ops) ==
    [ raises |-> raises, read_ops |-> read_ops, write_ops |-> write_ops ]

VolumeSamples ==
    { [ size |-> 500, type |-> "gp2", state |-> "available", age_days |-> 95,
        iops |-> << 1500 >>, io |-> Io(FALSE, 0, 0) ],
      [ size |-> 200, type |-> "gp3", state |-> "in-use", age_days |-> 400,
        iops |-> << 3000 >>, io |-> Io(FALSE, 90000, 45000) ],
      [ size |-> 100, type |-> "io1", state |-> "in-use", age_days |-> 20,
        iops |-> << 3000 >>, io |-> Io(FALSE, 40, 10) ],
      [ size |-> 100, type |-> "io2", state |-> "in-use", age_days |-> 20,
        iops |-> << >>, io |-> Io(TRUE, 0, 0) ] }

\* Sizes whose cost is a whole even number of cents, so that neither
\* round() in find_old_snapshots nor the halving in scan() meets a tie.
SnapshotSamples ==
    { [ size |-> 100, age_days |-> 200,
        description |-> << "b", "a", "c", "k", "u", "p" >> ],
      [ size |-> 100, age_days |-> 181,
        description |-> << "A", "M", "I" >> ],
      [ size |-> 100, age_days |-> 180,
        description |-> << >> ] }

\* s with its elements numbered 1, 2, ... in the field id
Numbered(samples) ==
    [ i \in DOMAIN samples |->
        [ f \in (DOMAIN samples[i]) \cup { "id" } |->
            IF f = "id" THEN i ELSE samples[i][f] ] ]

SeqsUpTo(pool, n) == UNION { [ 1 .. k -> pool ] : k \in 0 .. n }

LiveInventories ==
    { [ instances |-> WithIds(i), volumes |-> Numbered(v),
        snapshots |-> Numbered(sn) ] :
        i \in SeqsUpTo(LiveInstanceSamples, MaxInstances),
        v \in SeqsUpTo(VolumeSamples, MaxVolumes),
        sn \in SeqsUpTo(SnapshotSamples, MaxSnapshots) }

LiveInit ==
    /\ ApiIdle
    /\ inventory \in LiveInventories
    /\ ec2_scan = ScanIdle
    /\ ebs_scan = ScanIdle
    /\ report = ScanIdle

\* ec2_results = self.ec2_scanner.scan()
MasterScanner_scan_ec2 ==
    /\ report.pc = "idle"
    /\ LET r == EC2Scanner_scan(inventory.instances)
       IN  /\ ec2_scan' = Ended(r)
           /\ report' = IF r.error = None
                        THEN [ report EXCEPT !.pc = "ec2" ]
                        ELSE [ report EXCEPT !.pc = "raised", !.error = r.error ]
    /\ UNCHANGED << api_vars, inventory, ebs_scan >>

\* ebs_results = self.ebs_scanner.scan()
MasterScanner_scan_ebs ==
    /\ report.pc = "ec2"
    /\ LET r == EBSScanner_scan(inventory.volumes, inventory.snapshots)
       IN  /\ ebs_scan' = Ended(r)
           /\ report' = IF r.error = None
                        THEN [ report EXCEPT !.pc = "ebs" ]
                        ELSE [ report EXCEPT !.pc = "raised", !.error = r.error ]
    /\ UNCHANGED << api_vars, inventory, ec2_scan >>

\* The report built from the two sub-reports.
LiveReport(ec2_results, ebs_results) ==
    LET ec2_monthly_savings ==
            Get(Get(ec2_results, "potential_savings", << >>), "monthly", 0)
        ebs_monthly_savings ==
            Get(Get(ebs_results, "potential_savings", << >>), "monthly", 0)
        total_monthly == ec2_monthly_savings + ebs_monthly_savings
    IN  [ scan_metadata |-> [ scanners_run |-> << "EC2", "EBS" >>,
                              scan_duration_seconds |-> 0 ],
          ec2_findings |-> ec2_results,
          ebs_findings |-> ebs_results,
          executive_summary |->
            [ total_monthly_savings |-> total_monthly,
              total_annual_savings |-> total_monthly * 12,
              total_recommendations |->
                  Len(Get(ec2_results, "recommendations", << >>))
                  + Get(Get(ebs_results, "summary", << >>), "total_findings", 0),
              critical_items |->
                  Get(Get(ec2_results, "summary", << >>), "critical", 0)
                  + Get(Get(ebs_results, "summary", << >>), "critical_severity", 0),
              high_priority_items |->
                  Get(Get(ec2_results, "summary", << >>), "high", 0)
                  + Get(Get(ebs_results, "summary", << >>), "high_severity", 0) ] ]

\* The rest of scan(): the report, and its rows when save_to_db is set and
\* there are savings; a failed save is reported as a warning only.
MasterScanner_scan_report(save_to_db, db_error) ==
    /\ report.pc = "ebs"
    /\ LET r == LiveReport(ec2_scan.result[1], ebs_scan.result[1])
       IN  /\ report' = [ pc |-> "returned", error |-> None, result |-> << r >> ]
           /\ IF save_to_db /\ r.executive_summary.total_monthly_savings > 0
                 /\ ~db_error
              THEN _save_to_database(r)
              ELSE UNCHANGED << scan_runs, ec2_findings, ebs_findings, next_id >>
    /\ UNCHANGED << demo_mode, savings_realized, tasks, response >>
    /\ UNCHANGED << inventory, ec2_scan, ebs_scan >>

LiveNext ==
    \/ MasterScanner_scan_ec2
    \/ MasterScanner_scan_ebs
    \/ \E save_to_db \in BOOLEAN, db_error \in BOOLEAN :
           MasterScanner_scan_report(save_to_db, db_error)

LiveSpec == LiveInit /\ [][LiveNext]_vars

(***************************************************************************)
(* Properties of the live report (specification LiveSpec).                 *)
(***************************************************************************)
StorageItems(results, group) == results.findings[group].items

\* The primary savings of every finding of a live report that is not info:
\* the compute findings' primary_savings, the cost of the unattached, idle
\* and snapshot findings, the savings of the optimizations.
LiveActionableSavings(results) ==
    SumOf(SelectSeq(results.ec2_findings.recommendations,
                    LAMBDA rec : rec.recommendation.severity # "info"),
          LAMBDA rec : rec.recommendation.primary_savings)
    + SumOf(StorageItems(results.ebs_findings, "unattached_volumes"),
            LAMBDA v : v.monthly_cost)
    + SumOf(StorageItems(results.ebs_findings, "volume_optimizations"),
            LAMBDA o : o.monthly_savings)
    + SumOf(StorageItems(results.ebs_findings, "old_snapshots"),
            LAMBDA sn : sn.monthly_cost)
    + SumOf(StorageItems(results.ebs_findings, "low_activity_volumes"),
            LAMBDA v : v.monthly_cost)

ReportFindingCount(r) ==
    Len(Get(r.ec2_findings, "recommendations", << >>))
    + Len(r.ebs_findings.findings.unattached_volumes.items)
    + Len(r.ebs_findings.findings.old_snapshots.items)
    + Len(r.ebs_findings.findings.volume_optimizations.items)
    + Len(r.ebs_findings.findings.low_activity_volumes.items)

ReportSeverityCount(r, severity) ==
    CountSeq(Get(r.ec2_findings, "recommendations", << >>),
             LAMBDA rec : rec.recommendation.severity = severity)
    + CountSeq(r.ebs_findings.findings.unattached_volumes.items,
               LAMBDA v : v.severity = severity)
    + CountSeq(r.ebs_findings.findings.old_snapshots.items,
               LAMBDA sn : sn.severity = severity)
    + CountSeq(r.ebs_findings.findings.volume_optimizations.items,
               LAMBDA o : o.severity = severity)
    + CountSeq(r.ebs_findings.findings.low_activity_volumes.items,
               LAMBDA v : v.severity = severity)

AgeSamples == { 0, 7, 8, 30, 31, 90, 91, 400 }

\* Iops as describe_volumes reports it: absent, or a number on either side
\* of the threshold.
IopsSamples == { << >>, << 3000 >>, << 9999 >>, << 10000 >>, << 16000 >> }

IoSamples ==
    { Io(TRUE, 0, 0), Io(FALSE, 0, 0), Io(FALSE, 40, 59), Io(FALSE, 50, 50) }

VolumeTypeSamples == DOMAIN volume_pricing \cup { "unknown" }

\* Every type with every age, Iops and I/O answer, one volume at a time.
SingleVolumeInventories ==
    { << [ id |-> 1, size |-> size, type |-> type, state |-> state,
           age_days |-> age_days, iops |-> iops, io |-> io ] >> :
        size \in { 8, 500 }, type \in VolumeTypeSamples,
        state \in { "available", "in-use" }, age_days \in AgeSamples,
        iops \in IopsSamples, io \in IoSamples }

\* Descriptions that name an image, in either spelling and case, or hold
\* "ami" inside a word, and descriptions that do not.
ImageDescriptionSamples ==
    { << "A", "M", "I" >>,
      << "f", "o", "r", " ", "a", "m", "i", "-", "1" >>,
      << "D", "y", "n", "a", "m", "i", "c" >>,
      << "C", "r", "e", "a", "t", "e", "d", " ", "b", "y", " ",
         "C", "r", "e", "a", "t", "e", "I", "m", "a", "g", "e" >> }

OtherDescriptionSamples ==
    { << >>, << "b", "a", "c", "k", "u", "p" >>, << "a", " ", "m", "i", "r", "r", "o", "r" >>,
      << "C", "r", "e", "a", "t", "e", "I", "m", "a", "g", "e" >> }

SnapshotAgeSamples == { 0, 179, 180, 181, 400 }

\* Every description at every age, one snapshot at a time.
SingleSnapshotInventories ==
    { << [ id |-> 1, size |-> 100, age_days |-> age_days,
           description |-> description ] >> :
        age_days \in SnapshotAgeSamples,
        description \in ImageDescriptionSamples \cup OtherDescriptionSamples }

EBSInventories ==
    { [ instances |-> << >>, volumes |-> v, snapshots |-> << >> ] :
        v \in SingleVolumeInventories }
    \cup
    { [ instances |-> << >>, volumes |-> << >>, snapshots |-> sn ] :
        sn \in SingleSnapshotInventories }
    \cup
    { [ instances |-> << >>, volumes |-> Numbered(v),
        snapshots |-> Numbered(sn) ] :
        v \in SeqsUpTo(VolumeSamples, MaxVolumes),
        sn \in SeqsUpTo(SnapshotSamples, MaxSnapshots + 1) }

EBSInit ==
    /\ ApiIdle
    /\ inventory \in EBSInventories
    /\ ec2_scan = None
    /\ ebs_scan = ScanIdle
    /\ report = None

\* scanner.scan() of the module's __main__ block
ebs_scanner_main ==
    /\ ebs_scan.pc = "idle"
    /\ ebs_scan' = Ended(EBSScanner_scan(inventory.volumes, inventory.snapshots))
    /\ UNCHANGED << api_vars, inventory, ec2_scan, report >>

EBSNext == ebs_scanner_main

EBSSpec == EBSInit /\ [][EBSNext]_vars

(***************************************************************************)
(* Properties of the storage scanner (specification EBSSpec).              *)
(***************************************************************************)
EBSScanRan == ebs_scan.pc \in { "returned", "raised" }

Volumes == inventory.volumes

\* The sub-report's items of one finding group; none when scan() raised.
GroupItems(group) ==
    IF ebs_scan.result = << >> THEN << >>
    ELSE ebs_scan.result[1].findings[group].items

\* The severity by age as the specification states it.
TableUnattachedSeverity(age_days) ==
    CASE age_days > 90 -> "critical"
      [] age_days <= 90 /\ age_days > 30 -> "high"
      [] age_days <= 30 /\ age_days > 7 -> "medium"
      [] OTHER -> "low"

\* cost (cents) is size_gb x rate (1/1000 dollar per GB) rounded to a cent
IsCostOf(cost, size_gb, rate) ==
    /\ 10 * cost - size_gb * rate <= 5
    /\ size_gb * rate - 10 * cost <= 5

\* C15: the unattached-volume detector returns one finding for every volume
\* whose state is available and none for any other; the finding's severity
\* follows the age table with exclusive boundaries, its cost is
\* size_gb x type rate, and a returned sub-report lists exactly these.
C15_UnattachedExactlyWhenAvailable ==
    EBSScanRan =>
        LET found == find_unattached_volumes(Volumes)
        IN  /\ \A k \in DOMAIN Volumes :
                 Cardinality({ j \in DOMAIN found :
                                 found[j].volume_id = Volumes[k].id })
                     = IF Volumes[k].state = "available" THEN 1 ELSE 0
            /\ \A j \in DOMAIN found :
                 \E k \in DOMAIN Volumes :
                    /\ found[j].volume_id = Volumes[k].id
                    /\ found[j].severity
                           = TableUnattachedSeverity(Volumes[k].age_days)
                    /\ IsCostOf(found[j].monthly_cost, Volumes[k].size,
                                Get(volume_pricing, Volumes[k].type,
                                    default_volume_price))
            /\ ebs_scan.pc = "returned" =>
                   GroupItems("unattached_volumes") = found

\* C15 witness: a returned sub-report lists an unattached volume that is
\* 91 days old, with severity critical and its monthly cost.
C15_CriticalAtNinetyOneDays ==
    /\ ebs_scan.pc = "returned"
    /\ \E j \in DOMAIN GroupItems("unattached_volumes") :
         /\ GroupItems("unattached_volumes")[j].age_days = 91
         /\ GroupItems("unattached_volumes")[j].severity = "critical"
         /\ GroupItems("unattached_volumes")[j].monthly_cost > 0

\* The type optimizations as the specification states them: the severity
\* of the finding a volume gets, or none.
TableOptimization(volume) ==
    IF volume.type = "gp2" THEN << "medium" >>
    ELSE IF volume.type \in { "io1", "io2" }
            /\ ( volume.iops = << >> \/ volume.iops[1] < 10000 )
         THEN << "high" >>
         ELSE << >>

\* C16: a scan returns, and its type optimizations hold one finding
\* (to gp3, severity medium) for every gp2 volume, one (to gp3, severity
\* high) for every io1 or io2 volume whose provisioned IOPS is below 10,000
\* or not reported, and none for any other volume; monthly_savings is the
\* current cost minus the gp3 cost of the same size.
C16_TypeOptimizationFollowsTable ==
    EBSScanRan =>
        /\ ebs_scan.pc = "returned"
        /\ \A k \in DOMAIN Volumes :
             LET of_volume ==
                     SelectSeq(GroupItems("volume_optimizations"),
                               LAMBDA o : o.volume_id = Volumes[k].id)
             IN  /\ Len(of_volume) = Len(TableOptimization(Volumes[k]))
                 /\ \A j \in DOMAIN of_volume :
                      /\ of_volume[j].recommended_type = "gp3"
                      /\ of_volume[j].severity = TableOptimization(Volumes[k])[1]
                      /\ of_volume[j].monthly_savings
                             = _calculate_volume_cost(Volumes[k].size,
                                                      Volumes[k].type)
                               - _calculate_volume_cost(Volumes[k].size, "gp3")

GroupCost(group) ==
    SumOf(GroupItems(group), LAMBDA item : item.monthly_cost)

\* C17: in every returned sub-report the total monthly savings is, to the
\* cent, the unattached volumes' costs plus the optimizations' savings plus
\* half of the old snapshots' costs, with nothing for low-activity volumes;
\* every old-snapshot finding carries its full cost size_gb x snapshot rate.
C17_StorageTotalCountsHalfOfSnapshots ==
    ebs_scan.pc = "returned" =>
        LET twice == 2 * GroupCost("unattached_volumes")
                     + 2 * SumOf(GroupItems("volume_optimizations"),
                                 LAMBDA o : o.monthly_savings)
                     + GroupCost("old_snapshots")
            monthly == ebs_scan.result[1].potential_savings.monthly
        IN  /\ 2 * monthly - twice \in { -1, 0, 1 }
            /\ \A j \in DOMAIN GroupItems("old_snapshots") :
                 IsCostOf(GroupItems("old_snapshots")[j].monthly_cost,
                          GroupItems("old_snapshots")[j].size_gb,
                          snapshot_pricing)

\* C17 witness: a returned sub-report with an unattached volume, a type
\* optimization, an old snapshot and a low-activity volume, each with a
\* cost.
C17_AllFourGroupsFound ==
    /\ ebs_scan.pc = "returned"
    /\ GroupCost("unattached_volumes") > 0
    /\ GroupItems("volume_optimizations") # << >>
    /\ GroupCost("old_snapshots") > 0
    /\ GroupCost("low_activity_volumes") > 0

\* What the storage total attributes to one volume: its cost if it is
\* listed as unattached plus its savings if it is listed as a type
\* optimization (cents).
AttributedTo(volume_id) ==
    SumOf(SelectSeq(GroupItems("unattached_volumes"),
                    LAMBDA v : v.volume_id = volume_id),
          LAMBDA v : v.monthly_cost)
    + SumOf(SelectSeq(GroupItems("volume_optimizations"),
                      LAMBDA o : o.volume_id = volume_id),
            LAMBDA o : o.monthly_savings)

Snapshots == inventory.snapshots

\* C26: the old-snapshot detector returns one finding for every snapshot
\* older than 180 days and none for a snapshot of 180 days or less; the
\* finding is low when the description names an image ("ami" or "created
\* by createimage", in any case) and medium otherwise; a returned
\* sub-report lists exactly these findings.
C26_OldSnapshotsStrictlyOverThreshold ==
    EBSScanRan =>
        LET found == find_old_snapshots(Snapshots)
        IN  /\ \A k \in DOMAIN Snapshots :
                 Cardinality({ j \in DOMAIN found :
                                 found[j].snapshot_id = Snapshots[k].id })
                     = IF Snapshots[k].age_days > 180 THEN 1 ELSE 0
            /\ \A j \in DOMAIN found :
                 found[j].severity
                     = IF found[j].description \in ImageDescriptionSamples
                       THEN "low" ELSE "medium"
            /\ ebs_scan.pc = "returned" => GroupItems("old_snapshots") = found

\* C26 witness: a returned sub-report lists a snapshot 181 days old whose
\* description is "AMI" in capitals, with severity low.
C26_CapitalAmiIsLow ==
    /\ ebs_scan.pc = "returned"
    /\ \E j \in DOMAIN GroupItems("old_snapshots") :
         /\ GroupItems("old_snapshots")[j].age_days = 181
         /\ GroupItems("old_snapshots")[j].description = << "A", "M", "I" >>
         /\ GroupItems("old_snapshots")[j].severity = "low"

UnfinishedTasks ==
    { id \in DOMAIN tasks :
        tasks[id].pc \in { "scheduled", "scanned", "commit", "except" } }

TriggerReturnsRunning ==
    \A save_to_db \in BOOLEAN :
        trigger_scan(save_to_db) =>
            LET id == response'.scan_id
            IN  /\ response'.op = "trigger_scan"
                /\ response'.status = "running"
                /\ id = next_id.scan_runs
                /\ id \notin DOMAIN scan_runs
                /\ id \notin DOMAIN tasks
                /\ scan_runs'[id].status = "running"
                /\ tasks'[id].pc = "scheduled"

\* C12 (amended): a trigger returns a scan id never used before, with
\* status running, while its background task has not started; and as long
\* as the task has not written the outcome, the scan row, if it has not
\* been deleted meanwhile, has status running.
C12_TriggerReturnsRunningAtOnce ==
    /\ [][TriggerReturnsRunning]_vars
    /\ [](\A id \in UnfinishedTasks :
            id \in DOMAIN scan_runs => scan_runs[id].status = "running")

\* C12 as stated: from the trigger's return until the task writes the
\* outcome, the scan row is visible with status running.
C12_RowVisibleUntilOutcome ==
    \A id \in UnfinishedTasks :
        /\ id \in DOMAIN scan_runs
        /\ scan_runs[id].status = "running"

\* C12 witness: the last call was a trigger, and the task of a triggered
\* scan has scanned but not yet stored anything while its row shows running.
C12_RunningWhileTaskWorks ==
    /\ response.op = "trigger_scan"
    /\ \E id \in UnfinishedTasks :
         /\ tasks[id].pc = "scanned"
         /\ id \in DOMAIN scan_runs
         /\ scan_runs[id].status = "running"

\* Only run_scan_task changes the state of an existing task: a step that
\* does is a step of that task.
TaskStep(id) == tasks'[id] # tasks[id]

\* A step of the task of scan id touches no other scan's row or task,
\* changes no stored finding, and files every finding it adds under id.
TaskWritesOnlyItsOwnScan(id) ==
    /\ \A other \in (DOMAIN scan_runs) \ { id } :
         /\ other \in DOMAIN scan_runs'
         /\ scan_runs'[other] = scan_runs[other]
    /\ \A other \in (DOMAIN tasks) \ { id } : tasks'[other] = tasks[other]
    /\ \A f \in DOMAIN ec2_findings :
         f \in DOMAIN ec2_findings' /\ ec2_findings'[f] = ec2_findings[f]
    /\ \A f \in DOMAIN ebs_findings :
         f \in DOMAIN ebs_findings' /\ ebs_findings'[f] = ebs_findings[f]
    /\ \A f \in (DOMAIN ec2_findings') \ DOMAIN ec2_findings :
         ec2_findings'[f].scan_run_id = id
    /\ \A f \in (DOMAIN ebs_findings') \ DOMAIN ebs_findings :
         ebs_findings'[f].scan_run_id = id

\* The row and the number of findings of a scan that ran alone to the end
\* and stored the demo report.
CompletedAlone(id) ==
    /\ scan_runs[id] =
         [ ScanRun("completed") EXCEPT
             !.total_resources_scanned =
                 TotalResourcesScanned(_generate_demo_data),
             !.total_recommendations =
                 demo_executive_summary.total_recommendations,
             !.potential_monthly_savings =
                 demo_executive_summary.total_monthly_savings,
             !.potential_annual_savings =
                 demo_executive_summary.total_annual_savings ]
    /\ Cardinality(FindingsOfScan(id))
         = IF tasks[id].save_to_db
           THEN Len(EC2Rows(id, _generate_demo_data))
                + Len(EBSRows(id, _generate_demo_data))
           ELSE 0

\* C20: scans triggered together get distinct ids; each step of a scan's
\* background task writes only that scan's row and files findings only
\* under that scan's id; and however the tasks interleave, a scan that has
\* finished and is still stored has the status, summary and findings it
\* has when it runs alone: completed with the report's figures, or failed
\* with its own error and no findings.
C20_ConcurrentScansIndependent ==
    /\ [][ /\ \A id \in DOMAIN tasks :
                TaskStep(id) => TaskWritesOnlyItsOwnScan(id)
           /\ DOMAIN tasks' # DOMAIN tasks =>
                /\ next_id.scan_runs \notin DOMAIN tasks
                /\ next_id.scan_runs \notin DOMAIN scan_runs
                /\ DOMAIN tasks' = (DOMAIN tasks) \cup { next_id.scan_runs }
         ]_vars
    /\ [](\A id \in (DOMAIN tasks) \cap (DOMAIN scan_runs) :
            /\ tasks[id].pc = "done" => CompletedAlone(id)
            /\ tasks[id].pc = "failed" =>
                 /\ scan_runs[id].status = "failed"
                 /\ scan_runs[id].notes = tasks[id].error
                 /\ FindingsOfScan(id) = { })

\* C20 witness: two scans were triggered, the task of the second has
\* stored its findings and finished while the task of the first is still
\* between its scan and its commit.
C20_SecondTaskOvertakesFirst ==
    /\ { 1, 2 } \subseteq DOMAIN tasks
    /\ { 1, 2 } \subseteq DOMAIN scan_runs
    /\ tasks[1].pc \in { "scanned", "commit" }
    /\ tasks[2].pc = "done"
    /\ FindingsOfScan(2) # { }
    /\ scan_runs[1].status = "running"

FinishedTasks ==
    { id \in DOMAIN tasks : tasks[id].pc \in { "done", "failed" } }

SaveWarning == "Warning: Could not save demo data to database"

RowsOfScan(ec2, ebs, id) ==
    { << "ec2", f >> : f \in { g \in DOMAIN ec2 : ec2[g].scan_run_id = id } }
    \cup
    { << "ebs", f >> : f \in { g \in DOMAIN ebs : ebs[g].scan_run_id = id } }

\* The number of rows the writers build from the demo report.
DemoRowCount ==
    Len(EC2Rows(1, _generate_demo_data)) + Len(EBSRows(1, _generate_demo_data))

\* C24: a scan row is completed only when the scan itself has returned its
\* report, and status, summary and findings appear in one step: a scan
\* that is not completed has no finding row, a completed one has all the
\* rows built from its report, and the rows of a stored scan change in no
\* step other than the one that makes it completed.
C24_CompletedAndFindingsInOneCommit ==
    /\ [](\A id \in DOMAIN scan_runs :
            IF scan_runs[id].status = "completed"
            THEN /\ id \in DOMAIN tasks =>
                      /\ tasks[id].pc = "done"
                      /\ tasks[id].results = << _generate_demo_data >>
                 /\ scan_runs[id].total_recommendations
                        = demo_executive_summary.total_recommendations
                 /\ Cardinality(FindingsOfScan(id))
                        = IF id \in DOMAIN tasks /\ ~tasks[id].save_to_db
                          THEN 0 ELSE DemoRowCount
            ELSE FindingsOfScan(id) = { })
    /\ [][ \A id \in (DOMAIN scan_runs) \cap (DOMAIN scan_runs') :
             RowsOfScan(ec2_findings', ebs_findings', id)
                 # RowsOfScan(ec2_findings, ebs_findings, id)
             => /\ scan_runs[id].status = "running"
                /\ scan_runs'[id].status = "completed" ]_vars

\* C24 witness: one scan is completed with all its findings stored while
\* the task of another holds its findings ready for the commit, none of
\* them stored and its row still running.
C24_PendingFindingsNotVisible ==
    \E id \in DOMAIN scan_runs, other \in DOMAIN scan_runs :
        /\ scan_runs[id].status = "completed"
        /\ Cardinality(FindingsOfScan(id)) = DemoRowCount
        /\ other \in DOMAIN tasks
        /\ tasks[other].pc = "commit"
        /\ tasks[other].session.ec2 # << >>
        /\ scan_runs[other].status = "running"
        /\ FindingsOfScan(other) = { }

\* C27: every stored finding row, compute or storage, carries the id of a
\* scan row that exists and is completed, whatever the interleaving of
\* triggers, task steps and deletions.
C27_FindingsBelongToCompletedScans ==
    \A ft \in { "ec2", "ebs" } :
        \A f \in DOMAIN FindingTable(ft) :
            /\ FindingTable(ft)[f].scan_run_id \in DOMAIN scan_runs
            /\ scan_runs[FindingTable(ft)[f].scan_run_id].status = "completed"

\* C27 witness: a scan whose task had stored its findings has just been
\* deleted and none of its findings is left, while another scan's findings
\* are stored.
C27_DeletedScanLeavesNoFinding ==
    /\ response.op = "delete_scan"
    /\ response.code = 200
    /\ response.scan_id \in DOMAIN tasks
    /\ tasks[response.scan_id].pc = "done"
    /\ tasks[response.scan_id].save_to_db
    /\ FindingsOfScan(response.scan_id) = { }
    /\ ec2_findings # << >>

(***************************************************************************)
(* The API and CLI started on a database that already holds rows           *)
(* (specification LedgerSpec): init_db creates missing tables only, so the *)
(* stored demo scan, its findings, the implemented flags and the ledger    *)
(* rows found at startup are kept.                                         *)
(***************************************************************************)
\* The findings already marked implemented at startup, each with its
\* ledger row.
MarkedSamples ==
    { << >>,
      << [ finding_type |-> "ec2", finding_id |-> 1 ] >>,
      << [ finding_type |-> "ec2", finding_id |-> 1 ],
         [ finding_type |-> "ebs", finding_id |-> 2 ] >> }

IsMarked(marked, finding_type, finding_id) ==
    \E i \in DOMAIN marked : /\ marked[i].finding_type = finding_type
                             /\ marked[i].finding_id = finding_id

\* rows as stored by an earlier scan, with the flags of the marked ones set
StoredFindings(rows, marked, finding_type) ==
    [ i \in DOMAIN rows |->
        IF IsMarked(marked, finding_type, i)
        THEN [ rows[i] EXCEPT !.is_implemented = TRUE,
                              !.implementation_date = "utcnow" ]
        ELSE rows[i] ]

\* SavingsRealized(...): the amounts copied from the finding
StoredLedger(marked, ec2, ebs) ==
    [ i \in DOMAIN marked |->
        LET finding == IF marked[i].finding_type = "ec2"
                       THEN ec2[marked[i].finding_id]
                       ELSE ebs[marked[i].finding_id]
        IN  [ finding_type |-> marked[i].finding_type,
              finding_id |-> marked[i].finding_id,
              monthly_savings_realized |-> finding.potential_monthly_savings,
              annual_savings_realized |->
                  finding.potential_monthly_savings * 12 ] ]

LedgerInit ==
    /\ demo_mode \in BOOLEAN
    /\ \E marked \in MarkedSamples :
         LET ec2 == EC2Rows(1, _generate_demo_data)
             ebs == EBSRows(1, _generate_demo_data)
         IN  /\ scan_runs = << [ ScanRun("completed") EXCEPT
                    !.total_resources_scanned =
                        TotalResourcesScanned(_generate_demo_data),
                    !.total_recommendations =
                        demo_executive_summary.total_recommendations,
                    !.potential_monthly_savings =
                        demo_executive_summary.total_monthly_savings,
                    !.potential_annual_savings =
                        demo_executive_summary.total_annual_savings ] >>
             /\ ec2_findings = StoredFindings(ec2, marked, "ec2")
             /\ ebs_findings = StoredFindings(ebs, marked, "ebs")
             /\ savings_realized = StoredLedger(marked, ec2, ebs)
             /\ next_id = [ scan_runs |-> 2,
                            ec2_findings |-> Len(ec2) + 1,
                            ebs_findings |-> Len(ebs) + 1,
                            savings_realized |-> Len(marked) + 1 ]
    /\ tasks = << >>
    /\ response = Response("none", 0, None, 0)
    /\ ScannerIdle

LedgerSpec == LedgerInit /\ [][Next]_vars

\* C18: no step changes or removes a ledger row: every row of
\* savings_realized is there after the step with the same finding and the
\* same monthly and annual amounts, whether the step marks a finding, runs
\* or stores a scan, or deletes a scan.
C18_LedgerRowsKeptUnchanged ==
    [][ \A r \in DOMAIN savings_realized :
          /\ r \in DOMAIN savings_realized'
          /\ savings_realized'[r] = savings_realized[r] ]_vars

\* C18 witness: a scan has just been deleted, and the ledger still holds a
\* row for one of its findings, which are gone.
C18_LedgerRowOutlivesItsScan ==
    /\ response.op = "delete_scan"
    /\ response.code = 200
    /\ \E r \in DOMAIN savings_realized :
         /\ savings_realized[r].finding_id
                \notin DOMAIN FindingTable(savings_realized[r].finding_type)
         /\ savings_realized[r].monthly_savings_realized > 0

StaysImplemented(table, table_after) ==
    \A f \in DOMAIN table :
        ( table[f].is_implemented /\ f \in DOMAIN table_after )
        => table_after[f].is_implemented

\* C19: no step takes a finding from implemented back to not implemented:
\* a finding whose is_implemented is true and that still exists after the
\* step (it is gone only if its scan was deleted) has is_implemented true
\* after the step.
C19_ImplementedIsOneWay ==
    [][ /\ StaysImplemented(ec2_findings, ec2_findings')
        /\ StaysImplemented(ebs_findings, ebs_findings') ]_vars

\* C19 witness: a mark call on a finding that was already implemented has
\* been answered, a later scan has stored its own findings, and the
\* finding is still implemented.
C19_StillImplementedAfterCallAndScan ==
    /\ response.op = "mark_as_implemented"
    /\ response.found
    /\ response.was_implemented
    /\ response.id \in DOMAIN FindingTable(response.kind)
    /\ FindingTable(response.kind)[response.id].is_implemented
    /\ \E f \in DOMAIN FindingTable(response.kind) :
         FindingTable(response.kind)[f].scan_run_id # 1

(***************************************************************************)
(* GET /api/dashboard/stats: implemented_count is the number of rows of    *)
(* the ledger, and 0 when no completed scan is stored.                     *)
(***************************************************************************)
implemented_count ==
    IF \A id \in DOMAIN scan_runs : scan_runs[id].status # "completed"
    THEN 0
    ELSE Cardinality(DOMAIN savings_realized)

ImplementedFindings ==
    { x \in { "ec2", "ebs" } \X ( DOMAIN ec2_findings \cup DOMAIN ebs_findings ) :
        /\ x[2] \in DOMAIN FindingTable(x[1])
        /\ FindingTable(x[1])[x[2]].is_implemented }

====
